---- MODULE Spec2Model ----
(***************************************************************************)
(* A model of docparse: the heading-delimited abstract extractor           *)
(* (src/src/abstract_extractor.py), the title extractor and the paper      *)
(* collection with its JSON store (src/src/paper_manager.py), and the      *)
(* request handlers that share one PaperManager (src/app.py).              *)
(*                                                                         *)
(* Strings are sequences of one-character strings, so that split, strip    *)
(* and the regular expressions are computed character by character.        *)
(* An optional value is <<>> (None) or <<v>>.                              *)
(***************************************************************************)
EXTENDS Integers, Sequences, FiniteSets, TLC

VARIABLES
    \* ---- PaperManager (one process) ----
    up,          \* TRUE when a PaperManager was constructed
    papers,      \* self.papers
    next_id,     \* self.next_id
    storage,     \* the storage file
    last,        \* the last call as its caller saw it, with the state before it
    assigned,    \* history: every id ever given to a record
    n_ok,        \* history: number of add_paper calls that returned
    saved,       \* history: the in-memory state the storage file holds a dump of
    \* ---- the request handlers of app.py ----
    resp,        \* the last request and the response it got
    \* ---- extractors applied to one text ----
    text,        \* the argument markdown_text (an optional string)
    fallback,    \* the argument url of _extract_title
    ex,          \* what extract_abstract did on text
    title_out,   \* what _extract_title returned
    pc,          \* which of the two functions were applied
    \* ---- concurrent requests on the shared PaperManager ----
    tpc,         \* each request thread's position in add_paper
    tloc         \* each request thread's local variables

vars == <<up, papers, next_id, storage, last, assigned, n_ok, saved, resp,
          text, fallback, ex, title_out, pc, tpc, tloc>>

mgrVars == <<up, papers, next_id, storage, last, assigned, n_ok, saved>>
appVars == <<resp>>
exVars == <<text, fallback, ex, title_out, pc>>
thrVars == <<tpc, tloc>>

----------------------------------------------------------------------------
(* Bounds *)

\* Most lines in a text given to the extractors.
MaxLines == 3

\* add_paper is not called once next_id is above this.
MaxId == 3

\* Values of the clock read by datetime.now().
MaxDate == 1

----------------------------------------------------------------------------
(* Characters and Python's string helpers *)

None == <<>>
Some(v) == <<v>>

\* str.isspace() / the class \s
IsSpace(c) == c \in {" ", "\t", "\r", "\n"}

UpperCase == {"A", "B", "C", "R", "S", "T"}
LowerCase == {"a", "b", "c", "r", "s", "t", "x", "y"}

\* the class \w
IsWord(c) == c \in UpperCase \cup LowerCase \cup {"0", "1", "_"}

\* re.IGNORECASE folds both sides to one case
Lower(c) ==
    CASE c = "A" -> "a"
      [] c = "B" -> "b"
      [] c = "C" -> "c"
      [] c = "R" -> "r"
      [] c = "S" -> "s"
      [] c = "T" -> "t"
      [] OTHER -> c

LowerSeq(s) == [i \in 1..Len(s) |-> Lower(s[i])]

RECURSIVE LStrip(_)
LStrip(s) ==
    IF s = <<>> THEN <<>>
    ELSE IF IsSpace(Head(s)) THEN LStrip(Tail(s)) ELSE s

RECURSIVE RStrip(_)
RStrip(s) ==
    IF s = <<>> THEN <<>>
    ELSE IF IsSpace(s[Len(s)]) THEN RStrip(SubSeq(s, 1, Len(s) - 1)) ELSE s

\* str.strip()
Strip(s) == RStrip(LStrip(s))

\* str.split("\n"): the pieces between the newlines, at least one piece
RECURSIVE SplitFrom(_, _)
SplitFrom(s, cur) ==
    IF s = <<>> THEN <<cur>>
    ELSE IF Head(s) = "\n" THEN <<cur>> \o SplitFrom(Tail(s), <<>>)
    ELSE SplitFrom(Tail(s), Append(cur, Head(s)))

Split(s) == SplitFrom(s, <<>>)

\* " ".join(lines)
RECURSIVE JoinSpace(_)
JoinSpace(ls) ==
    IF ls = <<>> THEN <<>>
    ELSE IF Len(ls) = 1 THEN ls[1]
    ELSE ls[1] \o <<" ">> \o JoinSpace(Tail(ls))

\* re.sub(r"\s+", " ", s): every run of whitespace becomes one space
RECURSIVE CollapseFrom(_, _)
CollapseFrom(s, inRun) ==
    IF s = <<>> THEN <<>>
    ELSE IF IsSpace(Head(s))
         THEN (IF inRun THEN <<>> ELSE <<" ">>) \o CollapseFrom(Tail(s), TRUE)
         ELSE <<Head(s)>> \o CollapseFrom(Tail(s), FALSE)

Collapse(s) == CollapseFrom(s, FALSE)

\* the length of the longest prefix of '#'
RECURSIVE LeadingHashes(_)
LeadingHashes(s) ==
    IF s = <<>> \/ Head(s) # "#" THEN 0 ELSE 1 + LeadingHashes(Tail(s))

\* the length of the longest prefix of whitespace
RECURSIVE LeadingSpaces(_)
LeadingSpaces(s) ==
    IF s = <<>> \/ ~IsSpace(Head(s)) THEN 0 ELSE 1 + LeadingSpaces(Tail(s))

Drop(s, n) == SubSeq(s, n + 1, Len(s))

----------------------------------------------------------------------------
(* abstract_extractor.py *)

AbstractWord == <<"a", "b", "s", "t", "r", "a", "c", "t">>

\* the most '#' a heading marker may have, the 6 of #{1,6}
MaxLevel == 6

\* Faulty variant: the pattern without its "$": the label need only start with the word
MatchAbstractHeading_Prefix(s) ==
    LET h == LeadingHashes(s)
        r == LStrip(Drop(s, h))
        n == Len(AbstractWord)
    IN  /\ 1 <= h
        /\ h <= MaxLevel
        /\ Len(r) >= n
        /\ LowerSeq(SubSeq(r, 1, n)) = AbstractWord

\* re.match(r"^#{1,6}\s*Abstract\s*$", s, re.IGNORECASE)
MatchAbstractHeading(s) ==
    LET h == LeadingHashes(s)
        r == LStrip(Drop(s, h))
        n == Len(AbstractWord)
    IN  /\ 1 <= h
        /\ h <= MaxLevel
        /\ Len(r) >= n
        /\ LowerSeq(SubSeq(r, 1, n)) = AbstractWord
        /\ \A i \in (n + 1)..Len(r) : IsSpace(r[i])

\* re.match(r"^#{1,6}\s+\w+", s)
MatchAnyHeading(s) ==
    LET h == LeadingHashes(s)
        r == Drop(s, h)
        w == LeadingSpaces(r)
    IN  /\ 1 <= h
        /\ h <= MaxLevel
        /\ w >= 1
        /\ Len(r) > w
        /\ IsWord(r[w + 1])

\* the first loop: the index of the first line matching the abstract heading,
\* 0 when the loop ends without one (abstract_start_idx is None)
RECURSIVE FindAbstractFrom(_, _)
FindAbstractFrom(lines, i) ==
    IF i > Len(lines) THEN 0
    ELSE IF MatchAbstractHeading(Strip(lines[i])) THEN i
    ELSE FindAbstractFrom(lines, i + 1)

FindAbstract(lines) == FindAbstractFrom(lines, 1)

\* the second loop's exit: the index of the line it breaks at, Len(lines) + 1
\* when it runs to the end
RECURSIVE FindStopFrom(_, _)
FindStopFrom(lines, i) ==
    IF i > Len(lines) THEN Len(lines) + 1
    ELSE IF MatchAnyHeading(Strip(lines[i])) THEN i
    ELSE FindStopFrom(lines, i + 1)

\* Faulty variant: the test "if line:" left out: blank lines are appended too
KeepLine_Always(line) == TRUE

\* whether the second loop appends the stripped line
KeepLine(line) == line # <<>>

\* the second loop's abstract_lines: the stripped non-empty lines in i..stop-1
RECURSIVE CollectLines(_, _, _)
CollectLines(lines, i, stop) ==
    IF i >= stop THEN <<>>
    ELSE LET line == Strip(lines[i])
         IN  (IF KeepLine(line) THEN <<line>> ELSE <<>>)
             \o CollectLines(lines, i + 1, stop)

\* extract_abstract(markdown_text) with its local variables:
\* start (0: no heading found), stop, and result (None or the string)
ExtractAbstractRun(t) ==
    IF t = None \/ t[1] = <<>>
    THEN [start |-> 0, stop |-> 0, result |-> None]
    ELSE LET lines == Split(t[1])
             start == FindAbstract(lines)
         IN  IF start = 0
             THEN [start |-> 0, stop |-> 0, result |-> None]
             ELSE LET stop == FindStopFrom(lines, start + 1)
                      abstract_lines == CollectLines(lines, start + 1, stop)
                  IN  [start |-> start, stop |-> stop,
                       result |-> IF abstract_lines = <<>> THEN None
                                  ELSE Some(Strip(Collapse(JoinSpace(abstract_lines))))]

extract_abstract(t) == ExtractAbstractRun(t).result

----------------------------------------------------------------------------
(* paper_manager.py: _extract_title *)

\* Faulty variant: startswith("#") in place of startswith("# "): any level is taken
IsTitleLine_AnyLevel(line) ==
    /\ Len(line) > 2
    /\ line[1] = "#"

\* line.startswith("# ") and len(line) > 2
IsTitleLine(line) ==
    /\ Len(line) > 2
    /\ line[1] = "#"
    /\ line[2] = " "

RECURSIVE ExtractTitleFrom(_, _, _)
ExtractTitleFrom(lines, i, url) ==
    IF i > Len(lines) THEN url
    ELSE LET line == Strip(lines[i])
         IN  IF IsTitleLine(line) THEN Strip(Drop(line, 2))
             ELSE ExtractTitleFrom(lines, i + 1, url)

_extract_title(markdown_text, url) == ExtractTitleFrom(Split(markdown_text), 1, url)

----------------------------------------------------------------------------
(* The extractors applied to one text: SpecExtract *)

Hs(k) == [i \in 1..k |-> "#"]

Abstract1 == <<"A", "b", "s", "t", "r", "a", "c", "t">>
Abstract2 == <<"A", "B", "S", "T", "R", "A", "C", "T">>
Abstract3 == <<"a", "B", "s", "T", "r", "A", "c", "T">>

\* The lines the texts are made of.
LinePool ==
    { Hs(2) \o <<" ">> \o Abstract1,                 \* "## Abstract"
      Hs(2) \o <<" ">> \o Abstract2,                 \* "## ABSTRACT"
      <<" ">> \o Hs(2) \o <<" ">> \o Abstract1 \o <<" ">>,  \* " ## Abstract "
      Hs(1) \o <<"\t">> \o Abstract3,                \* "#<tab>aBsTrAcT"
      Hs(2) \o Abstract1,                            \* "##Abstract"
      Hs(2) \o <<" ">> \o Abstract1 \o <<" ", "x">>, \* "## Abstract x"
      Hs(6) \o <<" ">> \o Abstract1,                 \* "###### Abstract"
      Hs(7) \o <<" ">> \o Abstract1,                 \* "####### Abstract"
      Abstract1,                                     \* "Abstract"
      Hs(1),                                         \* "#"
      Hs(1) \o <<" ", "T">>,                         \* "# T"
      Hs(2) \o <<" ", "x">>,                         \* "## x"
      Hs(1) \o <<" ", "!">>,                         \* "# !"
      <<" ">> \o Hs(1) \o <<" ", " ", "y">>,         \* " #  y"
      <<"x">>,                                       \* "x"
      <<"a", " ", " ", "b">>,                        \* "a  b"
      <<" ">>,                                       \* " "
      <<>> }                                         \* ""

\* "\n".join(ls)
RECURSIVE JoinNl(_)
JoinNl(ls) ==
    IF ls = <<>> THEN <<>>
    ELSE IF Len(ls) = 1 THEN ls[1]
    ELSE ls[1] \o <<"\n">> \o JoinNl(Tail(ls))

Fallbacks == {<<>>, <<"u">>}

NoRun == [start |-> 0, stop |-> 0, result |-> None]

MgrIdle ==
    /\ up = FALSE
    /\ papers = <<>>
    /\ next_id = 1
    /\ storage = [kind |-> "missing", papers |-> <<>>, next_id |-> <<>>]
    /\ last = [op |-> "none", outcome |-> "ok"]
    /\ assigned = {}
    /\ n_ok = 0
    /\ saved = <<>>
    /\ resp = [route |-> "none", status |-> 0]

ThrIdle ==
    /\ tpc = <<>>
    /\ tloc = <<>>

InitExtract ==
    /\ MgrIdle
    /\ ThrIdle
    /\ \/ text = None
       \/ \E n \in 1..MaxLines : \E ls \in [1..n -> LinePool] : text = Some(JoinNl(ls))
    /\ fallback = <<>>
    /\ ex = NoRun
    /\ title_out = None
    /\ pc = [abstract |-> FALSE, title |-> FALSE]

\* a call extract_abstract(text)
CallExtractAbstract ==
    /\ ~pc.abstract
    /\ ex' = ExtractAbstractRun(text)
    /\ pc' = [pc EXCEPT !.abstract = TRUE]
    /\ UNCHANGED <<text, fallback, title_out>>
    /\ UNCHANGED mgrVars
    /\ UNCHANGED appVars
    /\ UNCHANGED thrVars

\* a call _extract_title(text, url); add_paper passes a string, never None
CallExtractTitle ==
    /\ ~pc.title
    /\ text # None
    /\ \E url \in Fallbacks :
           /\ fallback' = url
           /\ title_out' = Some(_extract_title(text[1], url))
    /\ pc' = [pc EXCEPT !.title = TRUE]
    /\ UNCHANGED <<text, ex>>
    /\ UNCHANGED mgrVars
    /\ UNCHANGED appVars
    /\ UNCHANGED thrVars

NextExtract ==
    \/ CallExtractAbstract
    \/ CallExtractTitle

SpecExtract == InitExtract /\ [][NextExtract]_vars

----------------------------------------------------------------------------
(* paper_manager.py: the collection and its store *)

Urls == {<<"u">>, <<"v">>}

\* result.document.export_to_markdown() for the document at each URL:
\* "# T\n## Abstract\nx" at u has a title and an abstract, "x" at v has neither.
DocAt(url) ==
    IF url = <<"u">>
    THEN JoinNl(<<Hs(1) \o <<" ", "T">>, Hs(2) \o <<" ">> \o Abstract1, <<"x">>>>)
    ELSE <<"x">>

\* datetime.now().isoformat(): the readings of the clock
Dates == 1..MaxDate

\* The clock does not run backwards: a reading is not before the added_date
\* of the records already in the collection.
ReadingsAfter(ps) ==
    {d \in Dates : \A i \in 1..Len(ps) : ps[i].added_date <= d}

\* "No abstract found"
Sentinel == <<"N", "o", " ", "a", "b", "s", "t", "r", "a", "c", "t", " ",
              "f", "o", "u", "n", "d">>

\* Faulty variant: the default left out: a missing abstract is stored as ""
OrSentinel_Empty(a) == IF a = None THEN <<>> ELSE a[1]

\* abstract or "No abstract found"
OrSentinel(a) == IF a = None \/ a[1] = <<>> THEN Sentinel ELSE a[1]

\* the dictionary add_paper builds
NewPaper(id, url, t, date) ==
    [id |-> id,
     url |-> url,
     title |-> _extract_title(t, url),
     abstract |-> OrSentinel(extract_abstract(Some(t))),
     added_date |-> date,
     markdown |-> t]

----------------------------------------------------------------------------
(* The storage file: what json.dump writes and json.load reads back *)

Digits == <<"0", "1", "2", "3", "4", "5", "6", "7", "8", "9">>

\* the JSON text of an integer: its decimal digits
RECURSIVE json_dump_int(_)
json_dump_int(n) ==
    IF n < 10 THEN <<Digits[n + 1]>>
    ELSE json_dump_int(n \div 10) \o <<Digits[(n % 10) + 1]>>

DigitValue(c) == CHOOSE k \in 0..9 : Digits[k + 1] = c

RECURSIVE json_load_int(_)
json_load_int(d) ==
    IF Len(d) = 1 THEN DigitValue(d[1])
    ELSE 10 * json_load_int(SubSeq(d, 1, Len(d) - 1)) + DigitValue(d[Len(d)])

\* the JSON escape of one character
EscapeChar(c) ==
    CASE c = "\"" -> <<"\\", "\"">>
      [] c = "\\" -> <<"\\", "\\">>
      [] c = "\n" -> <<"\\", "n">>
      [] c = "\r" -> <<"\\", "r">>
      [] c = "\t" -> <<"\\", "t">>
      [] OTHER -> <<c>>

RECURSIVE EscapeFrom(_, _)
EscapeFrom(s, i) ==
    IF i > Len(s) THEN <<>> ELSE EscapeChar(s[i]) \o EscapeFrom(s, i + 1)

\* the JSON text of a string: quoted, its characters escaped
json_dump_str(s) == <<"\"">> \o EscapeFrom(s, 1) \o <<"\"">>

\* the character an escape sequence \c stands for
UnescapeChar(c) ==
    CASE c = "n" -> "\n"
      [] c = "r" -> "\r"
      [] c = "t" -> "\t"
      [] OTHER -> c

\* the characters of e from position i up to the closing quote
RECURSIVE UnescapeFrom(_, _)
UnescapeFrom(e, i) ==
    IF i >= Len(e) THEN <<>>
    ELSE IF e[i] = "\\"
         THEN <<UnescapeChar(e[i + 1])>> \o UnescapeFrom(e, i + 2)
         ELSE <<e[i]>> \o UnescapeFrom(e, i + 1)

json_load_str(e) == UnescapeFrom(e, 2)

\* a record as the file holds it; added_date, a reading of the clock here,
\* is written with the digits of the reading
json_dump_paper(p) ==
    [id |-> json_dump_int(p.id),
     url |-> json_dump_str(p.url),
     title |-> json_dump_str(p.title),
     abstract |-> json_dump_str(p.abstract),
     added_date |-> json_dump_int(p.added_date),
     markdown |-> json_dump_str(p.markdown)]

json_load_paper(j) ==
    [id |-> json_load_int(j.id),
     url |-> json_load_str(j.url),
     title |-> json_load_str(j.title),
     abstract |-> json_load_str(j.abstract),
     added_date |-> json_load_int(j.added_date),
     markdown |-> json_load_str(j.markdown)]

NoFile == [kind |-> "missing", papers |-> <<>>, next_id |-> <<>>]

\* a file that json.load cannot parse: empty or cut short by a failed write
BadFile == [kind |-> "corrupt", papers |-> <<>>, next_id |-> <<>>]

\* json.dump({"papers": self.papers, "next_id": self.next_id}, f, indent=2)
JsonFile(ps, nid) ==
    [kind |-> "json",
     papers |-> [i \in 1..Len(ps) |-> json_dump_paper(ps[i])],
     next_id |-> json_dump_int(nid)]

\* How a call of _save_papers can end: the write succeeds, open() fails and
\* the file stays as it was, or the write fails after open() truncated it.
SaveOutcomes == {"ok", "open_failed", "write_failed"}

\* the storage file after _save_papers
_save_papers(how, ps, nid, old) ==
    CASE how = "ok" -> JsonFile(ps, nid)
      [] how = "open_failed" -> old
      [] how = "write_failed" -> BadFile

\* Faulty variant: the failure is caught inside _save_papers
SaveRaises_Swallowed(how) == FALSE

\* _save_papers has no try/except: open() or json.dump failing raises
SaveRaises(how) == how # "ok"

\* history: the in-memory state the file holds a complete dump of
SavedAfter(how, ps, nid, old) ==
    CASE how = "ok" -> Some([papers |-> ps, next_id |-> nid])
      [] how = "open_failed" -> old
      [] how = "write_failed" -> None

\* the list comprehension of remove_paper
WithoutId(ps, id) == SelectSeq(ps, LAMBDA p : p.id # id)

\* Faulty variant: the save and the True are not guarded by the length test
Removed_Always(before, after) == TRUE

\* remove_paper's test len(self.papers) < initial_length
Removed(before, after) == Len(after) < Len(before)

\* Faulty variant: the full document text is left in the listing
ListedFields_WithMarkdown(p) == p

\* the dictionary get_all_papers builds for one record
ListedFields(p) ==
    [id |-> p.id, url |-> p.url, title |-> p.title, abstract |-> p.abstract,
     added_date |-> p.added_date]

get_all_papers(ps) == [i \in 1..Len(ps) |-> ListedFields(ps[i])]

\* the file export_to_markdown writes: the count of the "Total papers" line
\* and one block per record, numbered from 1
export_to_markdown(ps) ==
    [total |-> Len(ps),
     blocks |-> [i \in 1..Len(ps) |->
                    [n |-> i, title |-> ps[i].title, url |-> ps[i].url,
                     added_date |-> ps[i].added_date, abstract |-> ps[i].abstract]]]

NoExport == [total |-> 0, blocks |-> <<>>]

NoCall ==
    [op |-> "none", outcome |-> "ok", url |-> <<>>, id |-> 0, text |-> <<>>,
     save |-> "none", ret_paper |-> None, ret_bool |-> FALSE, ret_list |-> <<>>,
     written |-> NoExport,
     pre_papers |-> <<>>, pre_next_id |-> 1, pre_storage |-> NoFile]

NoResp == [route |-> "none", url |-> None, id |-> 0, status |-> 0,
           paper |-> None, error |-> "", list |-> <<>>]

ExIdle ==
    /\ text = None
    /\ fallback = <<>>
    /\ ex = NoRun
    /\ title_out = None
    /\ pc = [abstract |-> FALSE, title |-> FALSE]

\* PaperManager() where no storage file exists yet
Init ==
    /\ up = TRUE
    /\ papers = <<>>
    /\ next_id = 1
    /\ storage = NoFile
    /\ last = NoCall
    /\ assigned = {}
    /\ n_ok = 0
    /\ saved = None
    /\ resp = NoResp
    /\ ExIdle
    /\ ThrIdle

Call(op, outcome) ==
    [NoCall EXCEPT !.op = op, !.outcome = outcome,
                   !.pre_papers = papers, !.pre_next_id = next_id,
                   !.pre_storage = storage]

\* add_paper(url) when converter.convert raises
AddPaperConvertFails(url) ==
    /\ up
    /\ next_id <= MaxId
    /\ last' = [Call("add", "ConversionError") EXCEPT !.url = url]
    /\ UNCHANGED <<up, papers, next_id, storage, assigned, n_ok, saved>>

\* add_paper(url) when the conversion succeeds: the record is appended and
\* next_id incremented, then _save_papers runs and ends in one of its ways
AddPaper(url, date, how) ==
    /\ up
    /\ next_id <= MaxId
    /\ LET t == DocAt(url)
           paper == NewPaper(next_id, url, t, date)
           raised == SaveRaises(how)
       IN  /\ papers' = Append(papers, paper)
           /\ next_id' = next_id + 1
           /\ storage' = _save_papers(how, papers', next_id', storage)
           /\ saved' = SavedAfter(how, papers', next_id', saved)
           /\ assigned' = assigned \cup {paper.id}
           /\ n_ok' = IF raised THEN n_ok ELSE n_ok + 1
           /\ last' = [Call("add", IF raised THEN "IOError" ELSE "ok")
                         EXCEPT !.url = url, !.text = t, !.save = how,
                                !.ret_paper = IF raised THEN None ELSE Some(paper)]
    /\ UNCHANGED up

\* remove_paper(paper_id); the ids asked for are those below next_id, which
\* may be present, and next_id itself, which never is
RemovePaper(paper_id, how) ==
    /\ up
    /\ LET after == WithoutId(papers, paper_id)
           raised == SaveRaises(how)
       IN  /\ papers' = after
           /\ IF Removed(papers, after)
              THEN /\ storage' = _save_papers(how, after, next_id, storage)
                   /\ saved' = SavedAfter(how, after, next_id, saved)
                   /\ last' = [Call("remove", IF raised THEN "IOError" ELSE "ok")
                                 EXCEPT !.id = paper_id, !.save = how,
                                        !.ret_bool = ~raised]
              ELSE /\ how = "ok"
                   /\ storage' = storage
                   /\ saved' = saved
                   /\ last' = [Call("remove", "ok") EXCEPT !.id = paper_id]
    /\ UNCHANGED <<up, next_id, assigned, n_ok>>

\* get_all_papers()
GetAllPapers ==
    /\ up
    /\ last' = [Call("list", "ok") EXCEPT !.ret_list = get_all_papers(papers)]
    /\ UNCHANGED <<up, papers, next_id, storage, assigned, n_ok, saved>>

\* export_to_markdown(): the report is written, or open() of the report file
\* raises; the storage file is not touched
ExportToMarkdown(opened) ==
    /\ up
    /\ last' = IF opened
               THEN [Call("export", "ok") EXCEPT !.written = export_to_markdown(papers)]
               ELSE Call("export", "IOError")
    /\ UNCHANGED <<up, papers, next_id, storage, assigned, n_ok, saved>>

\* Faulty variant: next_id is not read back from the file
_load_papers_FreshNextId(file) ==
    CASE file.kind = "missing" -> [raised |-> FALSE, papers |-> <<>>, next_id |-> 1]
      [] file.kind = "json" ->
             [raised |-> FALSE,
              papers |-> [i \in 1..Len(file.papers) |-> json_load_paper(file.papers[i])],
              next_id |-> 1]
      [] file.kind = "corrupt" -> [raised |-> TRUE, papers |-> <<>>, next_id |-> 1]

\* _load_papers on a fresh object (papers = [], next_id = 1): what it leaves
\* in papers and next_id, and whether json.load raised
_load_papers(file) ==
    CASE file.kind = "missing" -> [raised |-> FALSE, papers |-> <<>>, next_id |-> 1]
      [] file.kind = "json" ->
             [raised |-> FALSE,
              papers |-> [i \in 1..Len(file.papers) |-> json_load_paper(file.papers[i])],
              next_id |-> json_load_int(file.next_id)]
      [] file.kind = "corrupt" -> [raised |-> TRUE, papers |-> <<>>, next_id |-> 1]

\* The process starts again: PaperManager() is constructed on the storage file.
\* When json.load raises, the constructor raises and there is no manager.
Restart ==
    /\ LET r == _load_papers(storage)
       IN  /\ up' = ~r.raised
           /\ papers' = r.papers
           /\ next_id' = r.next_id
           /\ last' = Call("load", IF r.raised THEN "JSONDecodeError" ELSE "ok")
    /\ UNCHANGED <<storage, assigned, n_ok, saved>>

MgrFrame ==
    /\ UNCHANGED exVars
    /\ UNCHANGED appVars
    /\ UNCHANGED thrVars

Next ==
    \/ \E url \in Urls : AddPaperConvertFails(url) /\ MgrFrame
    \/ \E url \in Urls, date \in ReadingsAfter(papers), how \in SaveOutcomes :
           AddPaper(url, date, how) /\ MgrFrame
    \/ \E paper_id \in 1..next_id, how \in SaveOutcomes :
           RemovePaper(paper_id, how) /\ MgrFrame
    \/ GetAllPapers /\ MgrFrame
    \/ \E opened \in BOOLEAN : ExportToMarkdown(opened) /\ MgrFrame
    \/ Restart /\ MgrFrame

Spec == Init /\ [][Next]_vars

----------------------------------------------------------------------------
(* app.py: the request handlers, one request at a time, on the module's     *)
(* PaperManager. A request body is a JSON object whose "url", when it has    *)
(* one, is a string.                                                         *)

\* the "url" of the bodies sent: none, "", "  " and " u"
Bodies == {None, Some(<<>>), Some(<<" ", " ">>), Some(<<" ", "u">>)}

\* Faulty variant: the url is not stripped
RequestUrl_Unstripped(body) == IF body = None THEN <<>> ELSE body[1]

\* url = data.get("url", "").strip()
RequestUrl(body) == Strip(IF body = None THEN <<>> ELSE body[1])

Response(route, status) == [NoResp EXCEPT !.route = route, !.status = status]

\* the message of the 400 answer
UrlRequired == "URL is required"

\* POST /api/papers: add_paper(). For a url that is not blank, add_paper(url)
\* is called: converter.convert raises, or it returns and the clock is read
\* and the save ends in one of its ways.
PostPapers(body) ==
    LET url == RequestUrl(body)
    IN  IF url = <<>>
        THEN /\ resp' = [Response("POST /api/papers", 400)
                           EXCEPT !.url = body, !.error = UrlRequired]
             /\ UNCHANGED mgrVars
        ELSE /\ \/ AddPaperConvertFails(url)
                \/ \E date \in ReadingsAfter(papers), how \in SaveOutcomes :
                       AddPaper(url, date, how)
             /\ resp' = IF last'.outcome = "ok"
                        THEN [Response("POST /api/papers", 201)
                                EXCEPT !.url = body, !.paper = last'.ret_paper]
                        ELSE [Response("POST /api/papers", 500)
                                EXCEPT !.url = body, !.error = last'.outcome]

\* GET /api/papers: get_papers()
GetPapers ==
    /\ GetAllPapers
    /\ resp' = [Response("GET /api/papers", 200) EXCEPT !.list = last'.ret_list]

\* DELETE /api/papers/<paper_id>: delete_paper(); an error raised by
\* remove_paper is not caught and the server answers 500
DeletePaper(paper_id, how) ==
    /\ RemovePaper(paper_id, how)
    /\ resp' = [Response("DELETE /api/papers",
                         IF last'.outcome # "ok" THEN 500
                         ELSE IF last'.ret_bool THEN 200 ELSE 404)
                  EXCEPT !.id = paper_id]

\* POST /api/export: export_papers()
ExportPapers(opened) ==
    /\ ExportToMarkdown(opened)
    /\ resp' = IF last'.outcome = "ok"
               THEN Response("POST /api/export", 200)
               ELSE [Response("POST /api/export", 500) EXCEPT !.error = last'.outcome]

AppFrame ==
    /\ UNCHANGED exVars
    /\ UNCHANGED thrVars

NextApp ==
    \/ \E body \in Bodies : PostPapers(body) /\ AppFrame
    \/ GetPapers /\ AppFrame
    \/ \E paper_id \in 1..next_id, how \in SaveOutcomes :
           DeletePaper(paper_id, how) /\ AppFrame
    \/ \E opened \in BOOLEAN : ExportPapers(opened) /\ AppFrame

SpecApp == Init /\ [][NextApp]_vars

----------------------------------------------------------------------------
(* app.py: requests that run add_paper at the same time on the one shared   *)
(* PaperManager. The handlers take no lock, and a thread can be switched    *)
(* out between any two statements of add_paper and between the read and the *)
(* write of "self.next_id += 1".                                            *)

\* the two POST /api/papers requests
Reqs == {1, 2}

NoLocals == [url |-> <<>>, text |-> <<>>, paper |-> None, tmp |-> 0]

InitConc ==
    /\ up = TRUE
    /\ papers = <<>>
    /\ next_id = 1
    /\ storage = NoFile
    /\ last = NoCall
    /\ assigned = {}
    /\ n_ok = 0
    /\ saved = None
    /\ resp = NoResp
    /\ ExIdle
    /\ tpc = [r \in Reqs |-> "start"]
    /\ tloc = [r \in Reqs |-> NoLocals]

\* converter.convert(url) raises: the handler answers 500
T_ConvertFails(r) ==
    /\ tpc[r] = "start"
    /\ \E url \in Urls : tloc' = [tloc EXCEPT ![r].url = url]
    /\ tpc' = [tpc EXCEPT ![r] = "raised"]
    /\ UNCHANGED <<papers, next_id, storage>>

\* markdown_text = converter.convert(url).document.export_to_markdown()
T_Convert(r) ==
    /\ tpc[r] = "start"
    /\ \E url \in Urls : tloc' = [tloc EXCEPT ![r].url = url, ![r].text = DocAt(url)]
    /\ tpc' = [tpc EXCEPT ![r] = "converted"]
    /\ UNCHANGED <<papers, next_id, storage>>

\* paper = {"id": self.next_id, ...}: title and abstract are computed from the
\* local text, self.next_id is read
T_Build(r) ==
    /\ tpc[r] = "converted"
    /\ \E date \in Dates :
           tloc' = [tloc EXCEPT ![r].paper =
                        Some(NewPaper(next_id, tloc[r].url, tloc[r].text, date))]
    /\ tpc' = [tpc EXCEPT ![r] = "built"]
    /\ UNCHANGED <<papers, next_id, storage>>

\* self.papers.append(paper)
T_Append(r) ==
    /\ tpc[r] = "built"
    /\ papers' = Append(papers, tloc[r].paper[1])
    /\ tpc' = [tpc EXCEPT ![r] = "appended"]
    /\ UNCHANGED <<next_id, storage, tloc>>

\* self.next_id += 1: the read
T_LoadNextId(r) ==
    /\ tpc[r] = "appended"
    /\ tloc' = [tloc EXCEPT ![r].tmp = next_id]
    /\ tpc' = [tpc EXCEPT ![r] = "loaded"]
    /\ UNCHANGED <<papers, next_id, storage>>

\* self.next_id += 1: the write
T_StoreNextId(r) ==
    /\ tpc[r] = "loaded"
    /\ next_id' = tloc[r].tmp + 1
    /\ tpc' = [tpc EXCEPT ![r] = "incremented"]
    /\ UNCHANGED <<papers, storage, tloc>>

\* _save_papers: open(self.storage_file, "w") truncates the file
T_Open(r) ==
    /\ tpc[r] = "incremented"
    /\ storage' = BadFile
    /\ tpc' = [tpc EXCEPT ![r] = "opened"]
    /\ UNCHANGED <<papers, next_id, tloc>>

\* _save_papers: json.dump of the papers and next_id of that moment, and the
\* close; add_paper returns paper and the handler answers 201
T_Dump(r) ==
    /\ tpc[r] = "opened"
    /\ storage' = JsonFile(papers, next_id)
    /\ tpc' = [tpc EXCEPT ![r] = "done"]
    /\ UNCHANGED <<papers, next_id, tloc>>

ConcFrame ==
    /\ UNCHANGED <<up, last, assigned, n_ok, saved>>
    /\ UNCHANGED appVars
    /\ UNCHANGED exVars

NextConc ==
    \/ \E r \in Reqs : T_ConvertFails(r) /\ ConcFrame
    \/ \E r \in Reqs : T_Convert(r) /\ ConcFrame
    \/ \E r \in Reqs : T_Build(r) /\ ConcFrame
    \/ \E r \in Reqs : T_Append(r) /\ ConcFrame
    \/ \E r \in Reqs : T_LoadNextId(r) /\ ConcFrame
    \/ \E r \in Reqs : T_StoreNextId(r) /\ ConcFrame
    \/ \E r \in Reqs : T_Open(r) /\ ConcFrame
    \/ \E r \in Reqs : T_Dump(r) /\ ConcFrame

SpecConc == InitConc /\ [][NextConc]_vars

----------------------------------------------------------------------------
(* The vocabulary of the statements about the extractors *)

\* the lines of the text the extractors were applied to
TextLines == IF text = None THEN <<>> ELSE Split(text[1])

Least(S) == CHOOSE i \in S : \A j \in S : i <= j

IsBlank(line) == \A i \in 1..Len(line) : IsSpace(line[i])

\* After trimming: 1 to 6 '#', optional whitespace, a label equal to
\* "Abstract" whatever the case of its letters, and nothing after it.
OpensSection(line) ==
    LET s == Strip(line)
    IN  \E k \in 1..6 : \E w \in 0..Len(s) :
            /\ Len(s) = k + w + 8
            /\ \A i \in 1..k : s[i] = "#"
            /\ \A i \in (k + 1)..(k + w) : IsSpace(s[i])
            /\ LowerSeq(SubSeq(s, k + w + 1, Len(s))) = AbstractWord

\* After trimming: 1 to 6 '#', whitespace, then a character that is not
\* whitespace.
GenericHeading(line) ==
    LET s == Strip(line)
    IN  \E k \in 1..6 : \E w \in 1..Len(s) :
            /\ Len(s) > k + w
            /\ \A i \in 1..k : s[i] = "#"
            /\ \A i \in (k + 1)..(k + w) : IsSpace(s[i])
            /\ ~IsSpace(s[k + w + 1])

\* After trimming: exactly one '#', one space, then a label that is not empty.
LevelOneHeading(line) ==
    LET s == Strip(line)
    IN  /\ Len(s) >= 3
        /\ s[1] = "#"
        /\ s[2] = " "
        /\ \E i \in 3..Len(s) : ~IsSpace(s[i])

LevelOneLabel(line) == LET s == Strip(line) IN Strip(SubSeq(s, 3, Len(s)))

\* the indexes of the lines that open the section, and the first of them
Openers(lines) == {i \in 1..Len(lines) : OpensSection(lines[i])}

First(S) == IF S = {} THEN 0 ELSE Least(S)

----------------------------------------------------------------------------
(* C4..C8: the extractors *)

\* C4: extract_abstract returns None exactly when the text is None or empty,
\* or no line opens the section, or every line collected between the opening
\* heading and the line the collection stopped at is blank; otherwise it
\* returns a string that is not empty. It never returns the empty string.
C4_AbsentExactlyWhenNothingCollected ==
    pc.abstract =>
        LET lines == TextLines
        IN  /\ ex.result = None <=>
                  \/ text = None
                  \/ text[1] = <<>>
                  \/ Openers(lines) = {}
                  \/ \A i \in (ex.start + 1)..(ex.stop - 1) : IsBlank(lines[i])
            /\ ex.result # None => ex.result[1] # <<>>

\* C4's case: a section was opened and only blank lines were collected before
\* a heading ended it, and the result is None.
C4_Witness ==
    /\ pc.abstract
    /\ ex.start > 0
    /\ ex.stop > ex.start + 1
    /\ ex.stop <= Len(TextLines)
    /\ ex.result = None

\* C5 as stated: after the opening heading the collection stops at the first
\* generic heading (1 to 6 '#', whitespace, a non-whitespace character) and
\* at no other line.
C5_StopsAtFirstGenericHeading ==
    (pc.abstract /\ ex.start > 0) =>
        LET lines == TextLines
            G == {j \in (ex.start + 1)..Len(lines) : GenericHeading(lines[j])}
        IN  ex.stop = IF G = {} THEN Len(lines) + 1 ELSE Least(G)

\* C6 as stated: only the first "Abstract" heading is used, and the collection
\* ends at or before any later "Abstract" heading, so that neither that
\* heading nor the content under it is in the result.
C6_LaterAbstractHeadingExcluded ==
    pc.abstract =>
        LET O == Openers(TextLines)
        IN  O # {} =>
               /\ ex.start = First(O)
               /\ \A j \in O : j > ex.start => ex.stop <= j

C8_TitleIsFirstLevelOneHeading ==
    pc.title =>
        LET lines == TextLines
            T == {i \in 1..Len(lines) : LevelOneHeading(lines[i])}
        IN  /\ title_out = Some(IF T = {} THEN fallback
                                ELSE LevelOneLabel(lines[Least(T)]))
            /\ fallback # <<>> => title_out[1] # <<>>

\* C8's case: a level-2 heading comes first and is passed over, the title is
\* the label of a later level-1 heading.
C8_Witness ==
    /\ pc.title
    /\ Len(TextLines) >= 2
    /\ TextLines[1] = Hs(2) \o <<" ", "x">>
    /\ LevelOneHeading(TextLines[2])
    /\ title_out = Some(LevelOneLabel(TextLines[2]))
    /\ title_out # Some(fallback)

----------------------------------------------------------------------------
(* C1..C3, C9, C10: the collection *)

HasId(ps, id) == \E i \in 1..Len(ps) : ps[i].id = id

\* the storage file is one that a new PaperManager reads ps and nid from
FileHolds(ps, nid) ==
    _load_papers(storage) = [raised |-> FALSE, papers |-> ps, next_id |-> nid]

\* C1 as stated: on a collection that starts empty, the k-th add_paper call
\* that returns gives its record the id k.
C1_KthAddReturnsIdK ==
    (last.op = "add" /\ last.outcome = "ok") => last.ret_paper[1].id = n_ok

\* C2 as stated: next_id is above the id of every record in papers and above
\* every id ever given to a record.
C2_NextIdAboveEveryId ==
    up => /\ \A i \in 1..Len(papers) : papers[i].id < next_id
          /\ \A id \in assigned : id < next_id

\* C3 as stated: when the two concurrent adds have both returned, both records
\* are in papers and in the file, their ids differ, and next_id is 2 higher
\* than at the start.
C3_ConcurrentAddsSerialized ==
    (\A r \in Reqs : tpc[r] = "done") =>
        /\ tloc[1].paper[1].id # tloc[2].paper[1].id
        /\ \A r \in Reqs : HasId(papers, tloc[r].paper[1].id)
        /\ Len(papers) = 2
        /\ next_id = 3
        /\ storage = JsonFile(papers, next_id)

\* C9: an add_paper(url) that returns, the converted text being t, has
\* appended one record at the end of papers: id the next_id before the call,
\* url, title _extract_title(t, url), abstract extract_abstract(t) or the
\* sentinel, markdown t; next_id is one higher, the file holds the new papers
\* and next_id, and the record is what was returned.
C9_AddAppendsRecordAndPersists ==
    (last.op = "add" /\ last.outcome = "ok") =>
        LET t == last.text
            a == extract_abstract(Some(t))
            rec == [id |-> last.pre_next_id,
                    url |-> last.url,
                    title |-> _extract_title(t, last.url),
                    abstract |-> IF a = None THEN Sentinel ELSE a[1],
                    added_date |-> papers[Len(papers)].added_date,
                    markdown |-> t]
        IN  /\ papers = Append(last.pre_papers, rec)
            /\ next_id = last.pre_next_id + 1
            /\ storage.kind = "json"
            /\ FileHolds(papers, next_id)
            /\ last.ret_paper = Some(rec)

\* C9's case: an add of a document without an abstract returned while another
\* record was in the collection; the new record carries the sentinel.
C9_Witness ==
    /\ last.op = "add"
    /\ last.outcome = "ok"
    /\ Len(last.pre_papers) >= 1
    /\ Len(papers) = Len(last.pre_papers) + 1
    /\ papers[Len(papers)].abstract = Sentinel
    /\ papers[Len(papers)].title = last.url

\* C10: a remove_paper(id) that returns, returns True exactly when a record
\* with that id was present; then that record is gone, the others are kept in
\* order and the file holds the new state; when it returns False, papers and
\* the file are as before the call. next_id is never changed, and a call for
\* an id that is not present always returns.
C10_RemoveReturnsAndFrame ==
    last.op = "remove" =>
        LET was == HasId(last.pre_papers, last.id)
        IN  /\ next_id = last.pre_next_id
            /\ ~was => last.outcome = "ok"
            /\ last.outcome = "ok" =>
                  /\ last.ret_bool <=> was
                  /\ last.ret_bool =>
                        /\ ~HasId(papers, last.id)
                        /\ papers = SelectSeq(last.pre_papers, LAMBDA p : p.id # last.id)
                        /\ storage.kind = "json"
                        /\ FileHolds(papers, next_id)
                  /\ ~last.ret_bool =>
                        /\ papers = last.pre_papers
                        /\ storage = last.pre_storage

\* C10's case: a remove of an id that is not present returned False while the
\* file was not what a save would write (an earlier save had failed).
C10_Witness ==
    /\ last.op = "remove"
    /\ last.outcome = "ok"
    /\ ~last.ret_bool
    /\ Len(papers) >= 1
    /\ ~FileHolds(papers, next_id)

----------------------------------------------------------------------------
(* Statements about the store *)

\* the last call changed what must be persisted and returned normally
PersistedCall ==
    \/ last.op = "add" /\ last.outcome = "ok"
    \/ last.op = "remove" /\ last.outcome = "ok" /\ last.ret_bool

\* C11: Round trip. An add_paper or remove_paper that returns after changing
\* the collection has persisted the in-memory records and next_id, and a
\* PaperManager constructed on a file the program wrote has exactly the
\* persisted records, in order and with all their fields, and the persisted
\* next_id.
C11_LoadReproducesPersistedState ==
    /\ PersistedCall =>
           saved = Some([papers |-> papers, next_id |-> next_id])
    /\ (last.op = "load" /\ last.outcome = "ok" /\ saved # None) =>
           /\ papers = saved[1].papers
           /\ next_id = saved[1].next_id

\* a manager loaded from a file written after adds and a removal, holding a
\* record whose document text has line breaks
C11_Witness ==
    /\ last.op = "load"
    /\ last.outcome = "ok"
    /\ saved # None
    /\ Len(papers) >= 2
    /\ next_id > Len(papers) + 1
    /\ \E i \in 1..Len(papers) : \E k \in 1..Len(papers[i].markdown) :
           papers[i].markdown[k] = "\n"

\* C12 as stated: constructing a PaperManager never raises, and on a storage
\* file that is missing or cannot be parsed it yields the empty collection
\* with next_id = 1.
C12_LoadNeverFails ==
    last.op = "load" =>
        /\ last.outcome = "ok"
        /\ up
        /\ last.pre_storage.kind \in {"missing", "corrupt"} =>
               (papers = <<>> /\ next_id = 1)

\* the last call ran _save_papers and the write failed
SaveFailed == last.save \in {"open_failed", "write_failed"}

KeptIn(ps, qs) == SelectSeq(ps, LAMBDA p : HasId(qs, p.id))

\* a record without its full document text
WithoutText(p) == [f \in (DOMAIN p) \ {"markdown"} |-> p[f]]

\* C15: across add_paper, remove_paper, get_all_papers and export_to_markdown
\* the records that were in the collection before the call and are in it after
\* the call are the same records, field by field, in the same relative order;
\* get_all_papers and export_to_markdown leave the collection as it was; and
\* get_all_papers returns the records in the order of the collection, each
\* with every field except markdown.
C15_RecordsImmutable ==
    /\ last.op \in {"add", "remove", "list", "export"} =>
           KeptIn(papers, last.pre_papers) = KeptIn(last.pre_papers, papers)
    /\ last.op \in {"list", "export"} =>
           /\ papers = last.pre_papers
           /\ next_id = last.pre_next_id
    /\ last.op = "list" =>
           /\ Len(last.ret_list) = Len(papers)
           /\ \A i \in 1..Len(papers) : last.ret_list[i] = WithoutText(papers[i])

\* C15's case: a listing of a collection of two records after a removal
\* between them, the first with a title and an abstract of its own
C15_Witness ==
    /\ last.op = "list"
    /\ Len(last.ret_list) = 2
    /\ last.ret_list[1].id + 1 < last.ret_list[2].id
    /\ last.ret_list[1].abstract # Sentinel
    /\ "markdown" \notin DOMAIN last.ret_list[1]

\* C16 as stated: an add_paper that raises, in the conversion or in the
\* persist step, leaves papers and next_id as before the call; when the
\* conversion raised, the storage file too.
C16_FailedAddIsAtomic ==
    (last.op = "add" /\ last.outcome # "ok") =>
        /\ papers = last.pre_papers
        /\ next_id = last.pre_next_id
        /\ last.outcome = "ConversionError" => storage = last.pre_storage

----------------------------------------------------------------------------
(* Statements about the request handlers *)

\* the url of the request is missing, empty or whitespace only
BlankUrl(body) == body = None \/ IsBlank(body[1])

\* C14: a POST /api/papers whose url is missing or blank is answered 400
\* without add_paper being called: the manager, its collection, next_id and
\* the storage file are unchanged. Otherwise add_paper is called with the
\* trimmed url: when it returns the answer is 201 with the record it
\* returned, the one now last in the collection, and when it raises the
\* answer is 500 with the error.
C14_PostAnswers ==
    [][resp'.route = "POST /api/papers" =>
          /\ BlankUrl(resp'.url) =>
                 /\ resp'.status = 400
                 /\ resp'.error = UrlRequired
                 /\ UNCHANGED mgrVars
          /\ ~BlankUrl(resp'.url) =>
                 /\ last'.op = "add"
                 /\ last'.pre_papers = papers
                 /\ IsBlank(last'.url) = FALSE
                 /\ \E i \in 1..Len(resp'.url[1]) :
                        last'.url = SubSeq(resp'.url[1], i, Len(resp'.url[1]))
                 /\ last'.outcome = "ok" =>
                        /\ resp'.status = 201
                        /\ resp'.paper = last'.ret_paper
                        /\ resp'.paper = Some(papers'[Len(papers')])
                 /\ last'.outcome # "ok" =>
                        /\ resp'.status = 500
                        /\ resp'.error = last'.outcome
                        /\ resp'.paper = None]_vars

\* C14's case: a whitespace-only url was answered 400 on a collection that
\* holds records
C14_Witness ==
    /\ resp.route = "POST /api/papers"
    /\ resp.url = Some(<<" ", " ">>)
    /\ resp.status = 400
    /\ Len(papers) >= 1

====
